---- MODULE Spec2Model ----
(***************************************************************************)
(* Model of the FastAPI + Neo4j social API (src/app/main.py,                *)
(* src/app/neo4j_driver.py, src/app/schemas.py).                            *)
(*                                                                          *)
(* The state is the property graph held by the store plus the driver       *)
(* handle and the last request/response pair.  Every handler issues one    *)
(* auto-commit Cypher query, so each handler is one atomic action.         *)
(* Nodes are identified by their position in `users` / `posts`; edges are  *)
(* multisets (pair -> multiplicity) so that a duplicated edge or a         *)
(* duplicated username is a state the model can express.                   *)
(* `resp` is the request/response pair in flight; its field `pre` is a     *)
(* history value: the graph as it was when the request arrived.            *)
(***************************************************************************)
EXTENDS Integers, Sequences, FiniteSets

VARIABLES driver, constraints, users, follows, posts, posted, liked, resp

graph == <<users, follows, posts, posted, liked>>
vars == <<driver, constraints, users, follows, posts, posted, liked, resp>>

(* ------------------------------ bounds --------------------------------- *)
\* Posts created in a run of the whole API (Spec, SpecFault).
MaxPosts == 1
\* Posts created in a run of the user, follow, post and feed routes (SpecFeed).
MaxFeedPosts == 2
\* Largest explicit limit a client passes to get-feed.
MaxLimit == 2

(* --------------------------- program constants ------------------------- *)
DefaultLimit == 20
MaxContentLen == 500

(* ------------------------------ inputs --------------------------------- *)
NULL == "NULL"
Usernames == {"alice", "bob"}
Profiles == {[name |-> "Ann", bio |-> NULL]}
PostIds == 1..(MaxPosts + 1)
Limits == (-1..MaxLimit) \cup {DefaultLimit}
ContentLens == {MaxContentLen, MaxContentLen + 1}
\* datetime.utcnow() readings as <<second, microsecond>>
ClockReadings == {<<0, 0>>, <<0, 1>>, <<1, 0>>}

(* ----------------------------- helpers --------------------------------- *)
Min(a, b) == IF a < b THEN a ELSE b

\* datetime.isoformat(): the fractional part is left out when microsecond = 0.
\* The string is modelled as the sequence of its fixed-width fields.
isoformat(t) == IF t[2] = 0 THEN <<t[1]>> ELSE <<t[1], t[2]>>

\* Lexicographic string order used by ORDER BY on the created_at property.
RECURSIVE StrLess(_, _)
StrLess(a, b) ==
    IF a = <<>> THEN b # <<>>
    ELSE IF b = <<>> THEN FALSE
    ELSE IF Head(a) # Head(b) THEN Head(a) < Head(b)
    ELSE StrLess(Tail(a), Tail(b))

EmptyEdges == [e \in {} |-> 0]
Mult(b, e) == IF e \in DOMAIN b THEN b[e] ELSE 0

\* One more edge between the pair e.
AddEdge(b, e) ==
    [x \in DOMAIN b \cup {e} |-> IF x = e THEN Mult(b, e) + 1 ELSE b[x]]

\* CREATE in place of MERGE: an edge is added whether or not one exists.
MergeEdgeAsCreate(b, e) == AddEdge(b, e)

\* MERGE (x)-[:R]->(y): adds the edge only when no such edge exists.
MergeEdge(b, e) == IF Mult(b, e) > 0 THEN b ELSE AddEdge(b, e)

RECURSIVE MergeAll(_, _)
MergeAll(b, es) ==
    IF es = {} THEN b
    ELSE LET e == CHOOSE x \in es : TRUE
         IN MergeAll(MergeEdge(b, e), es \ {e})

\* An undirected pattern, (a)-[r:FOLLOWS]-(b), deletes both directions.
DeleteSym(b, as, bs) ==
    [x \in {e \in DOMAIN b : ~((e[1] \in as /\ e[2] \in bs) \/ (e[1] \in bs /\ e[2] \in as))} |-> b[x]]

\* MATCH (a)-[r:FOLLOWS]->(b) DELETE r over the matched end nodes.
DeleteEdges(b, as, bs) ==
    [x \in {e \in DOMAIN b : ~(e[1] \in as /\ e[2] \in bs)} |-> b[x]]

\* MATCH (a:User) without the property filter.
MatchAnyUser(un) == 1..Len(users)

\* MATCH (u:User {username: $username})
MatchUser(un) == {i \in 1..Len(users) : users[i].username = un}

\* MATCH (p:Post {id: $id})
MatchPost(pid) == {i \in 1..Len(posts) : posts[i].id = pid}

\* A store without the uniqueness constraint never rejects the CREATE.
NoViolation(un) == FALSE

\* The store's uniqueness constraint on User.username rejects the CREATE.
UsernameViolation(un) ==
    "user_username" \in constraints /\ MatchUser(un) # {}

Response(op, req, st, err, data) ==
    [op |-> op, req |-> req, status |-> st, error |-> err, data |-> data,
     pre |-> graph]

NoData == [none |-> TRUE]

\* No request is being handled.
Idle ==
    [op |-> "idle", req |-> NoData, status |-> 0, error |-> "none",
     data |-> NoData, pre |-> <<>>]

(* ------------------------------- Init ---------------------------------- *)
Init ==
    /\ driver = "none"
    /\ constraints = {}
    /\ users = <<>>
    /\ follows = EmptyEdges
    /\ posts = <<>>
    /\ posted = {}
    /\ liked = EmptyEdges
    /\ resp = Idle

(* --------------------------- lifecycle --------------------------------- *)
startup ==
    /\ resp = Idle
    /\ driver = "none"
    /\ driver' = "open"
    /\ constraints' = constraints \cup {"user_username", "post_id"}
    /\ resp' = Response("startup", NoData, 0, "none", NoData)
    /\ UNCHANGED graph

shutdown ==
    /\ resp = Idle
    /\ driver = "open"
    /\ driver' = "none"
    /\ resp' = Response("shutdown", NoData, 0, "none", NoData)
    /\ UNCHANGED <<constraints, graph>>

(* ----------------------------- handlers -------------------------------- *)
\* `down` is a store/transport failure raised by the adapter for this query.
create_user(un, prof, down) ==
    LET req == [username |-> un, name |-> prof.name, bio |-> prof.bio]
        id == Len(users) + 1
    IN
    /\ resp = Idle
    /\ driver = "open"
    /\ IF down
       THEN /\ resp' = Response("create_user", req, 400, "transport", NoData)
            /\ UNCHANGED graph
       ELSE IF UsernameViolation(un)
       THEN /\ resp' = Response("create_user", req, 400, "constraint", NoData)
            /\ UNCHANGED graph
       ELSE /\ users' = Append(users, [id |-> id, username |-> un,
                                       name |-> prof.name, bio |-> prof.bio])
            /\ resp' = Response("create_user", req, 201, "none",
                                [id |-> id, username |-> un,
                                 name |-> prof.name, bio |-> prof.bio])
            /\ UNCHANGED <<follows, posts, posted, liked>>
    /\ UNCHANGED <<driver, constraints>>

follow(a, b, down) ==
    LET req == [follower_username |-> a, followee_username |-> b]
        rows == MatchUser(a) \X MatchUser(b)
    IN
    /\ resp = Idle
    /\ driver = "open"
    /\ IF down
       THEN /\ resp' = Response("follow", req, 500, "transport", NoData)
            /\ UNCHANGED graph
       ELSE IF rows = {}
       THEN /\ resp' = Response("follow", req, 404, "none", NoData)
            /\ UNCHANGED graph
       ELSE /\ follows' = MergeAll(follows, rows)
            /\ resp' = Response("follow", req, 201, "none",
                                [follower |-> a, followee |-> b])
            /\ UNCHANGED <<users, posts, posted, liked>>
    /\ UNCHANGED <<driver, constraints>>

unfollow(a, b, down) ==
    LET req == [follower_username |-> a, followee_username |-> b]
    IN
    /\ resp = Idle
    /\ driver = "open"
    /\ IF down
       THEN /\ resp' = Response("unfollow", req, 500, "transport", NoData)
            /\ UNCHANGED graph
       ELSE /\ follows' = DeleteEdges(follows, MatchUser(a), MatchUser(b))
            /\ resp' = Response("unfollow", req, 200, "none", NoData)
            /\ UNCHANGED <<users, posts, posted, liked>>
    /\ UNCHANGED <<driver, constraints>>

create_post(author, len, now, down) ==
    LET req == [author_username |-> author, content |-> len]
        id == Len(posts) + 1
        created_at == isoformat(now)
        rows == MatchUser(author)
    IN
    /\ resp = Idle
    /\ driver = "open"
    /\ IF len > MaxContentLen
       THEN /\ resp' = Response("create_post", req, 422, "validation", NoData)
            /\ UNCHANGED graph
       ELSE IF down
       THEN /\ resp' = Response("create_post", req, 500, "transport", NoData)
            /\ UNCHANGED graph
       ELSE IF rows = {}
       THEN /\ resp' = Response("create_post", req, 404, "none", NoData)
            /\ UNCHANGED graph
       ELSE IF Cardinality(rows) > 1 /\ "post_id" \in constraints
       THEN \* one Post per matched row, all with the same id
            /\ resp' = Response("create_post", req, 500, "constraint", NoData)
            /\ UNCHANGED graph
       ELSE /\ posts' = Append(posts, [id |-> id, content |-> len,
                                       created_at |-> created_at])
            /\ posted' = posted \cup {<<a, id>> : a \in rows}
            /\ resp' = Response("create_post", req, 201, "none",
                                [id |-> id, author_username |-> author,
                                 content |-> len, created_at |-> created_at])
            /\ UNCHANGED <<users, follows, liked>>
    /\ UNCHANGED <<driver, constraints>>

\* count(*) in place of count(u): the null row of the OPTIONAL MATCH counts.
LikedRowsCountStar(us, p) ==
    LET n == Cardinality({u \in us : Mult(liked, <<u, p>>) > 0})
    IN IF n = 0 THEN 1 ELSE n

\* count(u): the number of LIKED edges ending in post node p, over the user
\* nodes us; the null row of an OPTIONAL MATCH without a match counts 0.
RECURSIVE LikedRows(_, _)
LikedRows(us, p) ==
    IF us = {} THEN 0
    ELSE LET u == CHOOSE x \in us : TRUE
         IN Mult(liked, <<u, p>>) + LikedRows(us \ {u}, p)

get_post(pid, down) ==
    LET req == [post_id |-> pid]
        \* MATCH (p:Post {id: $id})<-[:POSTED]-(a:User)
        rows == {e \in posted : e[2] \in MatchPost(pid)}
    IN
    /\ resp = Idle
    /\ driver = "open"
    /\ IF down
       THEN resp' = Response("get_post", req, 500, "transport", NoData)
       ELSE IF rows = {}
       THEN resp' = Response("get_post", req, 404, "none", NoData)
       ELSE \E e \in rows :
              resp' = Response("get_post", req, 200, "none",
                        [id |-> posts[e[2]].id,
                         author_username |-> users[e[1]].username,
                         content |-> posts[e[2]].content,
                         created_at |-> posts[e[2]].created_at,
                         likes |-> LikedRows(1..Len(users), e[2])])
    /\ UNCHANGED <<driver, constraints, graph>>

\* hasBodyPostId: whether the JSON body carries the post_id field that
\* schemas.LikeAction declares as required; the handler never reads it.
like_post(pid, un, hasBodyPostId, down) ==
    LET req == [post_id |-> pid, username |-> un, body_post_id |-> hasBodyPostId]
        rows == MatchUser(un) \X MatchPost(pid)
    IN
    /\ resp = Idle
    /\ driver = "open"
    /\ IF ~hasBodyPostId
       THEN /\ resp' = Response("like_post", req, 422, "validation", NoData)
            /\ UNCHANGED graph
       ELSE IF down
       THEN /\ resp' = Response("like_post", req, 500, "transport", NoData)
            /\ UNCHANGED graph
       ELSE IF rows = {}
       THEN /\ resp' = Response("like_post", req, 404, "none", NoData)
            /\ UNCHANGED graph
       ELSE /\ liked' = MergeAll(liked, rows)
            /\ resp' = Response("like_post", req, 200, "none",
                                [username |-> un, post_id |-> pid])
            /\ UNCHANGED <<users, follows, posts, posted>>
    /\ UNCHANGED <<driver, constraints>>

(* get_user: the three OPTIONAL MATCHes multiply into one row per        *)
(* combination; an OPTIONAL MATCH without a match binds null (node 0).    *)
Optional(S) == IF S = {} THEN {<<0, 0>>} ELSE S

Following(u) ==
    UNION {{<<e[2], k>> : k \in 1..follows[e]} : e \in {x \in DOMAIN follows : x[1] = u}}

Followers(u) ==
    UNION {{<<e[1], k>> : k \in 1..follows[e]} : e \in {x \in DOMAIN follows : x[2] = u}}

Posted(u) == {<<e[2], 1>> : e \in {x \in posted : x[1] = u}}

UserRows(u) == Optional(Following(u)) \X Optional(Followers(u)) \X Optional(Posted(u))

\* count(x): the rows whose column is not null.
CountAll(rows, col) == Cardinality({r \in rows : r[col][1] # 0})

\* count(DISTINCT x): the distinct non-null nodes bound in a column.
CountDistinct(rows, col) == Cardinality({r[col][1] : r \in rows} \ {0})

get_user(un, down) ==
    LET req == [username |-> un]
        rows == MatchUser(un)
    IN
    /\ resp = Idle
    /\ driver = "open"
    /\ IF down
       THEN resp' = Response("get_user", req, 500, "transport", NoData)
       ELSE IF rows = {}
       THEN resp' = Response("get_user", req, 404, "none", NoData)
       ELSE \E u \in rows :
              resp' = Response("get_user", req, 200, "none",
                        [id |-> users[u].id, username |-> users[u].username,
                         name |-> users[u].name, bio |-> users[u].bio,
                         following_count |-> CountDistinct(UserRows(u), 1),
                         followers_count |-> CountDistinct(UserRows(u), 2),
                         posts_count |-> CountDistinct(UserRows(u), 3)])
    /\ UNCHANGED <<driver, constraints, graph>>

(* get_feed *)
\* MATCH (me {username})-[:FOLLOWS]->(other)-[:POSTED]->(p): one row
\* <<me, other, copy, p>> per FOLLOWS edge and POSTED edge.
FeedRows(un) ==
    UNION {{<<x[1][1], x[1][2], k, x[2][2]>> : k \in 1..follows[x[1]]} :
            x \in {y \in (DOMAIN follows) \X posted :
                     /\ y[1][1] \in MatchUser(un)
                     /\ y[2][1] = y[1][2]}}

\* ORDER BY p.created_at without DESC.
OrderByCreatedAtAsc(s) ==
    \A i \in 1..(Len(s) - 1) :
        ~StrLess(posts[s[i + 1][4]].created_at, posts[s[i][4]].created_at)

\* ORDER BY p.created_at DESC; rows with equal keys come in any order.
OrderByCreatedAtDesc(s) ==
    \A i \in 1..(Len(s) - 1) :
        ~StrLess(posts[s[i][4]].created_at, posts[s[i + 1][4]].created_at)

FeedRecord(r) ==
    [id |-> posts[r[4]].id, author_username |-> users[r[2]].username,
     content |-> posts[r[4]].content, created_at |-> posts[r[4]].created_at]

get_feed(un, limit, down) ==
    LET req == [username |-> un, limit |-> limit]
        rows == FeedRows(un)
        n == Cardinality(rows)
    IN
    /\ resp = Idle
    /\ driver = "open"
    /\ IF down
       THEN resp' = Response("get_feed", req, 500, "transport", NoData)
       ELSE IF limit < 0
       THEN \* the store rejects a negative LIMIT; the handler does not catch it
            resp' = Response("get_feed", req, 500, "argument", NoData)
       ELSE \E s \in [1..n -> rows] :
              /\ \A i, j \in 1..n : s[i] = s[j] => i = j
              /\ OrderByCreatedAtDesc(s)
              /\ resp' = Response("get_feed", req, 200, "none",
                           [posts |-> [i \in 1..Min(limit, n) |-> FeedRecord(s[i])]])
    /\ UNCHANGED <<driver, constraints, graph>>

\* The response (or the lifecycle event) has been delivered.
respond ==
    /\ resp # Idle
    /\ resp' = Idle
    /\ UNCHANGED <<driver, constraints, graph>>

(* ------------------------------- Next ---------------------------------- *)
\* Downs: the outcomes of the adapter call that the environment may produce
\* (FALSE: the store answers; TRUE: the call raises a store/transport error).
\* cap bounds the number of posts the clients create.
SocialRequests(Downs, cap) ==
    \/ \E un \in Usernames, prof \in Profiles, down \in Downs : create_user(un, prof, down)
    \/ \E un \in Usernames, down \in Downs : get_user(un, down)
    \/ \E a \in Usernames, b \in Usernames, down \in Downs : follow(a, b, down)
    \/ \E a \in Usernames, b \in Usernames, down \in Downs : unfollow(a, b, down)
    \/ \E a \in Usernames, len \in ContentLens, now \in ClockReadings, down \in Downs :
          Len(posts) < cap /\ create_post(a, len, now, down)
    \/ \E un \in Usernames, limit \in Limits, down \in Downs : get_feed(un, limit, down)

LikeRequests(Downs) ==
    \/ \E pid \in PostIds, down \in Downs : get_post(pid, down)
    \/ \E pid \in PostIds, un \in Usernames, has \in BOOLEAN, down \in Downs :
          like_post(pid, un, has, down)

Lifecycle == startup \/ shutdown \/ respond

Next == Lifecycle \/ SocialRequests({FALSE}, MaxPosts) \/ LikeRequests({FALSE})

\* The whole API; the store answers every query.
Spec == Init /\ [][Next]_vars

FaultNext == Lifecycle \/ SocialRequests(BOOLEAN, MaxPosts) \/ LikeRequests(BOOLEAN)

\* The whole API; the store may fail any query.
SpecFault == Init /\ [][FaultNext]_vars

FeedNext == Lifecycle \/ SocialRequests({FALSE}, MaxFeedPosts)

\* Clients that use the user, follow, post and feed endpoints only.
SpecFeed == Init /\ [][FeedNext]_vars

(* ------------------------------ claims --------------------------------- *)
HasUser(us, un) == \E i \in 1..Len(us) : us[i].username = un
HasPost(ps, pid) == \E i \in 1..Len(ps) : ps[i].id = pid
NodesNamed(un) == {i \in 1..Len(users) : users[i].username = un}
IsRequest == resp.op \notin {"idle", "startup", "shutdown"}

\* C1: at most one FOLLOWS edge per ordered pair of users in every reachable
\* state; every follow call for two existing users reports 201 with the pair
\* and leaves exactly one FOLLOWS edge from the follower to the followee,
\* whether or not the edge existed before the call.
C1_AtMostOneFollows ==
    /\ \A e \in DOMAIN follows : follows[e] = 1
    /\ ( /\ resp.op = "follow"
         /\ HasUser(users, resp.req.follower_username)
         /\ HasUser(users, resp.req.followee_username) )
       => /\ resp.status = 201
          /\ resp.data = [follower |-> resp.req.follower_username,
                          followee |-> resp.req.followee_username]
          /\ \A i \in NodesNamed(resp.req.follower_username),
                j \in NodesNamed(resp.req.followee_username) :
                Mult(follows, <<i, j>>) = 1

\* A follow call that succeeded for a pair whose FOLLOWS edge already existed.
C1_RepeatFollow ==
    /\ resp.op = "follow"
    /\ resp.status = 201
    /\ \E e \in DOMAIN resp.pre[2] :
          /\ users[e[1]].username = resp.req.follower_username
          /\ users[e[2]].username = resp.req.followee_username

\* C2: at most one LIKED edge per (user, post); LIKED edges are added only by
\* a successful like, a repeated like changes nothing; and get-post of an
\* existing post reports likes = the number of distinct users with a LIKED
\* edge to that post.
C2_LikesCount ==
    /\ \A e \in DOMAIN liked : liked[e] = 1
    /\ (IsRequest /\ ~(resp.op = "like_post" /\ resp.status = 200))
       => liked = resp.pre[5]
    /\ (resp.op = "like_post" /\ resp.status = 200)
       => \E u \in NodesNamed(resp.req.username), q \in 1..Len(posts) :
             /\ posts[q].id = resp.req.post_id
             /\ Mult(liked, <<u, q>>) = 1
             /\ \A e \in (DOMAIN liked \cup DOMAIN resp.pre[5]) \ {<<u, q>>} :
                   Mult(liked, e) = Mult(resp.pre[5], e)
             /\ Mult(resp.pre[5], <<u, q>>) = 1 => liked = resp.pre[5]
    /\ (resp.op = "get_post" /\ HasPost(posts, resp.req.post_id))
       => /\ resp.status = 200
          /\ \E q \in 1..Len(posts) :
                /\ posts[q].id = resp.req.post_id
                /\ resp.data.likes =
                     Cardinality({u \in 1..Len(users) : Mult(liked, <<u, q>>) > 0})

\* A like repeated by a user who had already liked the post.
C2_RepeatLike ==
    /\ resp.op = "like_post"
    /\ resp.status = 200
    /\ \E e \in DOMAIN resp.pre[5] :
          /\ users[e[1]].username = resp.req.username
          /\ posts[e[2]].id = resp.req.post_id

\* C3: at most one User node per username; create-user with an unused
\* username reports 201 with the id, username, name and bio of the node it
\* added; create-user with a used username reports the client error 400 and
\* leaves the graph unchanged.
C3_UniqueUsername ==
    /\ \A un \in Usernames : Cardinality(NodesNamed(un)) <= 1
    /\ resp.op = "create_user"
       => IF HasUser(resp.pre[1], resp.req.username)
          THEN /\ resp.status = 400
               /\ graph = resp.pre
          ELSE /\ resp.status = 201
               /\ Len(users) = Len(resp.pre[1]) + 1
               /\ SubSeq(users, 1, Len(resp.pre[1])) = resp.pre[1]
               /\ resp.data = [id |-> users[Len(users)].id,
                               username |-> resp.req.username,
                               name |-> resp.req.name, bio |-> resp.req.bio]
               /\ users[Len(users)] = resp.data
               /\ <<follows, posts, posted, liked>> =
                    <<resp.pre[2], resp.pre[3], resp.pre[4], resp.pre[5]>>

\* A second create-user call for a username, rejected.
C3_SecondCreate ==
    /\ resp.op = "create_user"
    /\ resp.status = 400
    /\ HasUser(resp.pre[1], resp.req.username)

\* C4: a well-formed follow, create-post or like that names a missing user
\* or post reports 404 and leaves the graph as it was.
C4_NotFoundNoEffect ==
    /\ ( /\ resp.op = "follow"
         /\ \/ ~HasUser(resp.pre[1], resp.req.follower_username)
            \/ ~HasUser(resp.pre[1], resp.req.followee_username) )
       => (resp.status = 404 /\ graph = resp.pre)
    /\ ( /\ resp.op = "create_post"
         /\ resp.error # "validation"
         /\ ~HasUser(resp.pre[1], resp.req.author_username) )
       => (resp.status = 404 /\ graph = resp.pre)
    /\ ( /\ resp.op = "like_post"
         /\ resp.error # "validation"
         /\ \/ ~HasUser(resp.pre[1], resp.req.username)
            \/ ~HasPost(resp.pre[3], resp.req.post_id) )
       => (resp.status = 404 /\ graph = resp.pre)

\* A like by a missing user on an existing post, in a graph that has edges.
C4_LikeByMissingUser ==
    /\ resp.op = "like_post"
    /\ resp.status = 404
    /\ HasPost(posts, resp.req.post_id)
    /\ ~HasUser(users, resp.req.username)
    /\ Len(users) > 0

\* C5: unfollow(a, b) reports 200 in every state of the graph; afterwards no
\* FOLLOWS edge from a to b exists and every other node and edge is as before.
C5_UnfollowFrame ==
    resp.op = "unfollow"
    => LET A == NodesNamed(resp.req.follower_username)
           B == NodesNamed(resp.req.followee_username)
       IN /\ resp.status = 200
          /\ \A e \in DOMAIN follows : ~(e[1] \in A /\ e[2] \in B)
          /\ DOMAIN follows \subseteq DOMAIN resp.pre[2]
          /\ \A e \in DOMAIN resp.pre[2] :
                (e[1] \in A /\ e[2] \in B) \/ Mult(follows, e) = resp.pre[2][e]
          /\ <<users, posts, posted, liked>> =
               <<resp.pre[1], resp.pre[3], resp.pre[4], resp.pre[5]>>

\* An unfollow that removed a -> b while b -> a, a post and a like existed.
C5_UnfollowOneDirection ==
    /\ resp.op = "unfollow"
    /\ resp.req.follower_username # resp.req.followee_username
    /\ \E i \in NodesNamed(resp.req.follower_username),
          j \in NodesNamed(resp.req.followee_username) :
          /\ <<i, j>> \in DOMAIN resp.pre[2]
          /\ <<j, i>> \in DOMAIN follows
    /\ posted # {}
    /\ DOMAIN liked # {}

\* The posts authored by the users that the user named un follows.
FolloweePosts(un) ==
    {q \in 1..Len(posts) :
        \E m \in NodesNamed(un), o \in 1..Len(users) :
            Mult(follows, <<m, o>>) > 0 /\ <<o, q>> \in posted}

\* What C6 says of a get-feed(un, L) response r.
FeedContract(un, L, r) ==
    LET fp == FolloweePosts(un)
        n == Cardinality(fp)
    IN /\ r.status = 200
       /\ LET out == r.data.posts
          IN /\ Len(out) = (IF n >= L THEN L ELSE n)
             /\ \A i \in 1..Len(out) :
                   \E q \in fp :
                      /\ posts[q].id = out[i].id
                      /\ posts[q].created_at = out[i].created_at
                      /\ \E m \in NodesNamed(un), o \in 1..Len(users) :
                            /\ Mult(follows, <<m, o>>) > 0
                            /\ <<o, q>> \in posted
                            /\ users[o].username = out[i].author_username
             /\ \A i, j \in 1..Len(out) : out[i].id = out[j].id => i = j
             /\ \A i \in 1..(Len(out) - 1) :
                   ~StrLess(out[i].created_at, out[i + 1].created_at)
             /\ \A q \in fp :
                   (\A i \in 1..Len(out) : out[i].id # posts[q].id)
                   => \A i \in 1..Len(out) :
                         ~StrLess(out[i].created_at, posts[q].created_at)

\* C6 as stated: for every limit L, get-feed(u, L) returns exactly L posts
\* when the followees have n >= L posts and all n otherwise, each a followee's
\* post, none twice, newest first, omitting no post newer than a returned one.
C6_FeedAnyLimit ==
    resp.op = "get_feed"
    => FeedContract(resp.req.username, resp.req.limit, resp)

\* C6 amended: the same for every limit L >= 0.
C6_FeedNonNegativeLimit ==
    (resp.op = "get_feed" /\ resp.req.limit >= 0)
    => FeedContract(resp.req.username, resp.req.limit, resp)

\* A feed cut to one post while the followees have two posts of different age.
C6_FeedTruncated ==
    /\ resp.op = "get_feed"
    /\ resp.status = 200
    /\ resp.req.limit = 1
    /\ Len(resp.data.posts) = 1
    /\ \E p, q \in FolloweePosts(resp.req.username) :
          StrLess(posts[p].created_at, posts[q].created_at)

\* C7: the feed of a user never holds a post authored by that user.
C7_NoOwnPosts ==
    (resp.op = "get_feed" /\ resp.status = 200)
    => \A i \in 1..Len(resp.data.posts) :
          resp.data.posts[i].author_username # resp.req.username

\* C8: get-user of an existing user reports the three counts, each the number
\* of distinct nodes at the other end; of a missing username it reports 404.
C8_UserCounts ==
    resp.op = "get_user"
    => IF ~HasUser(users, resp.req.username)
       THEN resp.status = 404
       ELSE /\ resp.status = 200
            /\ \E u \in NodesNamed(resp.req.username) :
                  /\ resp.data.id = users[u].id
                  /\ resp.data.username = resp.req.username
                  /\ resp.data.following_count =
                       Cardinality({j \in 1..Len(users) : Mult(follows, <<u, j>>) > 0})
                  /\ resp.data.followers_count =
                       Cardinality({j \in 1..Len(users) : Mult(follows, <<j, u>>) > 0})
                  /\ resp.data.posts_count =
                       Cardinality({q \in 1..Len(posts) : <<u, q>> \in posted})

\* A user with 2 followees, 1 follower and 2 posts.
C8_ThreeDifferentCounts ==
    /\ resp.op = "get_user"
    /\ resp.status = 200
    /\ resp.data.following_count = 2
    /\ resp.data.followers_count = 1
    /\ resp.data.posts_count = 2

\* C9: a like whose body carries only username, for an existing user and an
\* existing post in the path, returns 200 with {username, post_id} and the
\* LIKED edge exists.
C9_LikeWithUsernameOnly ==
    ( /\ resp.op = "like_post"
      /\ ~resp.req.body_post_id
      /\ HasUser(users, resp.req.username)
      /\ HasPost(posts, resp.req.post_id) )
    => /\ resp.status = 200
       /\ resp.data = [username |-> resp.req.username, post_id |-> resp.req.post_id]
       /\ \E u \in NodesNamed(resp.req.username), q \in 1..Len(posts) :
             posts[q].id = resp.req.post_id /\ Mult(liked, <<u, q>>) = 1

\* C10: a store or transport failure never ends a request as a client error,
\* and create-user reports 400 only when the username was already taken.
C10_FailureUnclassified ==
    /\ (IsRequest /\ resp.error = "transport") => resp.status = 500
    /\ (resp.op = "create_user" /\ resp.status = 400)
       => HasUser(resp.pre[1], resp.req.username)

====
